---- MODULE Spec2Model ----
(***************************************************************************)
(* kineuron: KineticModel (kinetic_model.py), TransitionState, Transition, *)
(* RateConstant and the Solver (solver.py) with its Gillespie loop.        *)
(*                                                                         *)
(* Time is counted in ticks (integers); rates, stimulus and propensities   *)
(* are non-negative integers.  A draw random()*a0 in [0, a0) is modelled   *)
(* by its integer part, which selects the same transition because the      *)
(* cumulative propensities are integers.                                   *)
(***************************************************************************)
EXTENDS Integers, Sequences, FiniteSets, TLC

\* ------------------------------------------------------------------ bounds
\* KineticModel(vesicles=...): the total number of vesicles.
Vesicles == 2
\* Largest advance of the event time in one iteration, in ticks.
MaxDt == 2
\* time_end of run() ranges over 0..MaxTimeEnd ticks.
MaxTimeEnd == 2
\* run() is called with arguments whose table has at most MaxRows rows:
\* repeat * (time_end \div time_save + 1) <= MaxRows.
MaxRows == 4
\* Events of one trajectory that may leave the event time unchanged.
MaxStalled == 1
\* Helpers evaluated on their own: a dict of at most MaxTransitions
\* propensities, each in 0..MaxPropensity.
MaxTransitions == 3
MaxPropensity == 3
MaxTime == 9

\* ------------------------------------------------------- program constants
\* for _ in trange(3, ...): attempts of Solver.resting_state().
Attempts == 3
\* time_save=0.01 of the resting-state search, one tick.
RestingTimeSave == 1
\* def set_resting_state(self): parameters besides self.
SetRestingStateParams == 0
\* self.__model.set_resting_state(state): arguments passed by the Solver.
SetRestingStateArgs == 1
\* epsilon = 0.005 of Stimulation.__init__: two ticks, so that a time, a
\* period or a waiting time shorter than epsilon exists.
epsilon == 2

\* ------------------------------------------------------------------ inputs
Docked == "Docked"
Fusion == "Fusion"
Ghost == "Ghost"

\* TransitionState objects that exist; Ghost names no object.
PoolObjects == {Docked, Fusion}

\* Lists handed to add_transition_states.
PoolLists == { <<Docked, Fusion>>, <<Fusion, Docked>> }

Tr(n, o, d, r, ca) ==
    [name |-> n, origin |-> o, destination |-> d, rate |-> r,
     calcium_dependent |-> ca]

\* Lists handed to add_transitions: the two-transition cycle of the tests,
\* a list with a zero-rate first transition and an absorbing state, a list
\* with a dangling destination and a list with a dangling origin.
TransitionLists ==
    { << Tr("T1", Docked, Fusion, 1, TRUE), Tr("T2", Fusion, Docked, 2, FALSE) >>,
      << Tr("T0", Fusion, Docked, 0, FALSE), Tr("T1", Docked, Fusion, 1, FALSE) >>,
      << Tr("T1", Docked, Ghost, 1, FALSE) >>,
      << Tr("T1", Ghost, Docked, 1, FALSE) >> }

\* save_transitions arguments of run(); "TX" names no transition.
SaveTransitionsInputs == { {}, {"T1"}, {"T1", "T2"}, {"TX"} }
Methods == {"gillespie", "custom"}

\* The Stimulation object handed to the Solver, in ticks: two conditioning
\* pulses at ticks 1 and 3, the test pulse at tick 5.
Protocol ==
    [type_stimulus |-> "exponential_decay", time_start_stimulation |-> 1,
     conditional_stimuli |-> 2, period |-> 2, tau_stimulus |-> 1,
     time_wait_test |-> 2, intensity_stimulus |-> 2]

VARIABLES
    \* KineticModel
    transition_states_set,   \* __transition_states is not None
    transition_states,       \* names of __transition_states, in dict order
    transitions_set,         \* __transitions is not None
    transitions,             \* values of __transitions, in dict order
    vesicles_in,             \* TransitionState.__vesicles of every object
    resting_state,           \* __resting_state (a dict; << >> before init)
    init_flag,               \* _init_flag: "None" or "True"
    init_resting_state,      \* _init_resting_state: "None", "False", "True"
    \* Solver
    results_table,           \* __results
    \* the call in progress
    pc,                      \* "idle", "for", "while"
    call,                    \* the method the user called last
    request,                 \* history: the arguments that call validated
                             \* (run: method and save_transitions;
                             \* set_initial_state: the mapping)
    outcome,                 \* how the last call ended
    calls,                   \* the Solver methods that have simulated so far
    attempt,                 \* attempt of resting_state(), 1..Attempts
    window_width, tolerance, \* arguments of resting_state()
    repeat, time_end, time_save, resting_state_simulation, save_transitions,
    overshoot,               \* the float sum of the time_save increments that
                             \* stands for time_end exceeds time_end
    i, t, tsave, dummy_transitions, results,
    state, success,          \* what the last __resting_test returned
    events,                  \* history: events of the current trajectory
    \* a helper of the Solver or the Stimulation evaluated on its own
    given,                   \* the helper and its arguments
    returned                 \* what it returned

model_vars == << transition_states_set, transition_states, transitions_set,
                 transitions, vesicles_in, resting_state, init_flag,
                 init_resting_state >>
table_vars == << results_table >>
arg_vars == << attempt, window_width, tolerance, repeat, time_end, time_save,
               resting_state_simulation, save_transitions, overshoot >>
loop_vars == << i, t, tsave, dummy_transitions, results, events >>
test_vars == << state, success >>
helper_vars == << given, returned >>
machine_vars == << model_vars, table_vars, pc, call, request, outcome, calls,
                   arg_vars, loop_vars, test_vars >>
vars == << model_vars, table_vars, pc, call, request, outcome, calls,
           arg_vars, loop_vars, test_vars, helper_vars >>

\* ----------------------------------------------------------------- helpers
Range(s) == { s[k] : k \in 1..Len(s) }

RECURSIVE SumOver(_, _)
SumOver(f, S) ==
    IF S = {} THEN 0
    ELSE LET x == CHOOSE y \in S : TRUE IN f[x] + SumOver(f, S \ {x})

SumDict(d) == SumOver(d, DOMAIN d)

Abs(x) == IF x < 0 THEN -x ELSE x

Names(list) == { list[k].name : k \in 1..Len(list) }

\* ------------------------------------------------------------ KineticModel
\* __dict_items for a list of TransitionState objects: a dict keeps the
\* position of the first occurrence of a key.
RECURSIVE dict_keys(_)
dict_keys(list) ==
    IF list = << >> THEN << >>
    ELSE LET front == dict_keys(SubSeq(list, 1, Len(list) - 1))
             last == list[Len(list)]
         IN IF last \in Range(front) THEN front ELSE Append(front, last)

\* __dict_items for a list of Transition objects: the first occurrence of a
\* name fixes the position, the last occurrence the value.
RECURSIVE dict_items(_)
dict_items(list) ==
    IF list = << >> THEN << >>
    ELSE LET front == dict_items(SubSeq(list, 1, Len(list) - 1))
             last == list[Len(list)]
         IN IF last.name \in Names(front)
            THEN [k \in 1..Len(front) |->
                     IF front[k].name = last.name THEN last ELSE front[k]]
            ELSE Append(front, last)

\* get_current_state: the count of every registered pool.
get_current_state == [n \in Range(transition_states) |-> vesicles_in[n]]

\* init() that stops after the first pool: the other pools keep their counts.
InitCountsFirstOnly ==
    [n \in PoolObjects |->
        IF n \in Range(transition_states) /\ n = transition_states[1]
        THEN Vesicles ELSE vesicles_in[n]]

\* The counts init() assigns: everything to the first-declared pool.
InitCounts ==
    [n \in PoolObjects |->
        IF n \in Range(transition_states)
        THEN (IF n = transition_states[1] THEN Vesicles ELSE 0)
        ELSE vesicles_in[n]]

\* set_initial_state that reads the mapping with a default: a pool missing
\* from the mapping keeps its count and nothing is raised.
RECURSIVE UpdateFromLenient(_, _, _)
UpdateFromLenient(counts, mapping, k) ==
    IF k > Len(transition_states) THEN [counts |-> counts, error |-> "none"]
    ELSE IF transition_states[k] \notin DOMAIN mapping
         THEN UpdateFromLenient(counts, mapping, k + 1)
         ELSE UpdateFromLenient([counts EXCEPT ![transition_states[k]] =
                                     mapping[transition_states[k]]],
                                mapping, k + 1)

\* set_initial_state(dictionary_state): pools are overwritten in dict order
\* until a name is missing from the mapping (KeyError).
RECURSIVE UpdateFrom(_, _, _)
UpdateFrom(counts, mapping, k) ==
    IF k > Len(transition_states) THEN [counts |-> counts, error |-> "none"]
    ELSE IF transition_states[k] \notin DOMAIN mapping
         THEN [counts |-> counts, error |-> "KeyError"]
         ELSE UpdateFrom([counts EXCEPT ![transition_states[k]] =
                              mapping[transition_states[k]]], mapping, k + 1)

set_initial_state(mapping) == UpdateFrom(vesicles_in, mapping, 1)

\* ------------------------------------------------------------- Stimulation
\* math.exp(-d / tau) times the intensity: the intensity halves every tau
\* ticks (integer arithmetic).
RECURSIVE Halve(_, _)
Halve(x, n) == IF n <= 0 THEN x ELSE Halve(x \div 2, n - 1)

exp_decay(intensity, d, tau) == Halve(intensity, d \div tau)

time_end_stimulation(p) ==
    p.time_start_stimulation + (p.conditional_stimuli - 1) * p.period + epsilon

time_test(p) ==
    p.time_start_stimulation + (p.conditional_stimuli - 1) * p.period
        + p.time_wait_test

\* Stimulation.__exponential_decay
exponential_decay(p, time) ==
    LET delta_time == time - p.time_start_stimulation
    IN IF time >= p.time_start_stimulation /\ time < time_end_stimulation(p)
       THEN exp_decay(p.intensity_stimulus, delta_time % p.period,
                      p.tau_stimulus)
       ELSE IF time >= time_end_stimulation(p) /\ time < time_test(p)
       THEN exp_decay(p.intensity_stimulus,
                      delta_time - (p.conditional_stimuli - 1) * p.period,
                      p.tau_stimulus)
       ELSE IF time >= time_test(p)
       THEN exp_decay(p.intensity_stimulus, time - time_test(p),
                      p.tau_stimulus)
       ELSE 0

\* Stimulation.stimuli
stimuli(time) == exponential_decay(Protocol, time)

\* ------------------------------------------------------------------ Solver
\* __list2dictzero
list2dictzero(names) == [n \in names |-> 0]

\* The first transition whose origin is not a registered pool (0 if none):
\* get_transition_states()[storage] raises KeyError there.
DanglingOrigin ==
    LET bad == { k \in 1..Len(transitions) :
                    transitions[k].origin \notin Range(transition_states) }
    IN IF bad = {} THEN 0 ELSE CHOOSE k \in bad : \A j \in bad : k <= j

\* The propensity with the stimulus added to every calcium-dependent rate,
\* in a resting-state search as well.
PropensityStimulated(tr, time, rss) ==
    LET dummy_vesicles == vesicles_in[tr.origin]
        dummy_rate == tr.rate + (IF tr.calcium_dependent
                                 THEN stimuli(time) ELSE 0)
    IN dummy_rate * dummy_vesicles

\* Propensity of one transition at event time `time`.
Propensity(tr, time, rss) ==
    LET dummy_vesicles == vesicles_in[tr.origin]
        dummy_rate == tr.rate + (IF tr.calcium_dependent /\ ~rss
                                 THEN stimuli(time) ELSE 0)
    IN dummy_rate * dummy_vesicles

\* The dict a, as the sequence of propensities in dict order.
Propensities(time, rss) ==
    [k \in 1..Len(transitions) |-> Propensity(transitions[k], time, rss)]

RECURSIVE SumSeq(_)
SumSeq(s) == IF s = << >> THEN 0 ELSE s[Len(s)] + SumSeq(SubSeq(s, 1, Len(s) - 1))

\* The comparison with >= in place of >: a transition whose cumulative
\* propensity equals the draw is selected, a zero-propensity one included.
ReachesDraw(accumulative, random_a0) == accumulative >= random_a0

\* The comparison that ends the scan of the cumulative propensities.
Exceeds(accumulative, random_a0) == accumulative > random_a0

\* The scan with the comparison made before the propensity of the key is
\* added.
RECURSIVE ScanFromLate(_, _, _, _)
ScanFromLate(a, random_a0, k, accumulative) ==
    LET acc == accumulative + a[k]
    IN IF Exceeds(accumulative, random_a0) \/ k = Len(a) THEN k
       ELSE ScanFromLate(a, random_a0, k + 1, acc)

\* The scan: transition_name is the key at which the loop breaks, or the
\* last key when it never breaks.
RECURSIVE ScanFrom(_, _, _, _)
ScanFrom(a, random_a0, k, accumulative) ==
    LET acc == accumulative + a[k]
    IN IF Exceeds(acc, random_a0) \/ k = Len(a) THEN k
       ELSE ScanFrom(a, random_a0, k + 1, acc)

SelectTransition(a, random_a0) == ScanFrom(a, random_a0, 1, 0)

\* A row that carries no firing.
RowNoTally(run, time, counts, fired) ==
    [run |-> run, time |-> time, state |-> counts,
     fired |-> [name \in DOMAIN fired |-> 0]]

\* One emitted row.
Row(run, time, counts, fired) ==
    [run |-> run, time |-> time, state |-> counts, fired |-> fired]

\* tsave <= time_end.  tsave is the float sum of save \div time_save
\* increments of time_save (tsave += time_save): where that sum stands for
\* time_end itself, rounding decides the comparison.  With no increment
\* tsave is exactly 0.
NotBeyond(save, end) ==
    \/ save < end
    \/ save = end /\ (save = 0 \/ ~overshoot)

\* The emission loop with > in place of >=: a row waits for an event time
\* strictly beyond its save time.
EmitGuardStrict(time, save, end) == time > save /\ NotBeyond(save, end)

\* The guard of the emission loop.
EmitGuard(time, save, end) == time >= save /\ NotBeyond(save, end)

\* The emission loop without the reset of the tallies: every row emitted in
\* one iteration repeats them and they are carried into the next rows.
RECURSIVE EmitRowsKeep(_, _, _, _, _)
EmitRowsKeep(rows, save, fired, time, run) ==
    IF EmitGuard(time, save, time_end)
    THEN EmitRowsKeep(Append(rows, Row(run, save, get_current_state, fired)),
                      save + time_save, fired, time, run)
    ELSE [rows |-> rows, tsave |-> save, fired |-> fired]

\* The emission loop: rows for every save time reached by the event time;
\* the tallies go into the first row emitted, later rows start from zero.
RECURSIVE EmitRows(_, _, _, _, _)
EmitRows(rows, save, fired, time, run) ==
    IF EmitGuard(time, save, time_end)
    THEN EmitRows(Append(rows, Row(run, save, get_current_state, fired)),
                  save + time_save, list2dictzero(save_transitions), time, run)
    ELSE [rows |-> rows, tsave |-> save, fired |-> fired]

\* ---------------------------------------------------------- __resting_test
\* Row positions (0-based) kept by .iloc[range(0, len(dataframe), width)].
Kept(rows, width) == (Len(rows) - 1) \div width + 1
Pos(k, width) == (k - 1) * width

\* rolling(width).mean() is NaN before a full window is available.
Valid(p, width) == p >= width - 1

\* Sum of the window that ends at position p, for column n (the rolling
\* mean times width).
WinSum(rows, p, width, n) ==
    LET w == (p - width + 1)..p
    IN SumOver([q \in w |-> rows[q + 1].state[n]], w)

\* KineticModel.get_vesicles of the model the Solver holds; a resting test
\* evaluated on its own names the total of its model among its arguments.
get_vesicles ==
    IF "vesicles" \in DOMAIN given THEN given.vesicles ELSE Vesicles

\* abs(df.diff()) summed over the columns, times width; dropna() removes the
\* rows where either window is incomplete.
Defined(k, width) == k >= 2 /\ Valid(Pos(k - 1, width), width)

Change(rows, k, width) ==
    LET cols == DOMAIN rows[1].state
    IN SumOver([n \in cols |-> Abs(WinSum(rows, Pos(k, width), width, n)
                                   - WinSum(rows, Pos(k - 1, width), width, n))],
               cols)

\* df2 < tolerance, the change being 100 * Change / (width * vesicles).
Under(rows, k, width, tol) ==
    100 * Change(rows, k, width) < tol * width * get_vesicles

Candidates(rows, width, tol) ==
    { k \in 1..Kept(rows, width) : Defined(k, width) /\ Under(rows, k, width, tol) }

\* idxmin: the first row with the smallest change.
IdxMin(rows, width, tol) ==
    LET C == Candidates(rows, width, tol)
    IN CHOOSE k \in C :
          \A j \in C : \/ Change(rows, k, width) < Change(rows, j, width)
                       \/ Change(rows, k, width) = Change(rows, j, width) /\ k <= j

\* round() of sum / width: to nearest, ties to the even integer.
RoundHalfEven(sum, width) ==
    LET q == sum \div width
        r == sum % width
    IN IF 2 * r < width THEN q
       ELSE IF 2 * r > width THEN q + 1
       ELSE IF q % 2 = 0 THEN q ELSE q + 1

\* df.loc[index].round().astype('int').to_dict()
Rounded(rows, width, tol) ==
    LET k == IdxMin(rows, width, tol)
    IN [n \in DOMAIN rows[1].state |->
           RoundHalfEven(WinSum(rows, Pos(k, width), width, n), width)]

\* __resting_test without the correction of the rounded state.
AcceptedStatesUncorrected(rows, width, tol) == { Rounded(rows, width, tol) }

\* The states __resting_test may return on success: the rounded means, the
\* difference to the total added to a pool chosen by random.choice.
AcceptedStates(rows, width, tol) ==
    LET st == Rounded(rows, width, tol)
        difference == get_vesicles - SumDict(st)
    IN IF difference # 0
       THEN { [st EXCEPT ![random_name] = @ + difference] :
                  random_name \in DOMAIN st }
       ELSE { st }

resting_test_success(rows, width, tol) == Candidates(rows, width, tol) # {}

\* ------------------------------------------------------------------- state
EmptyDict == [n \in {} |-> 0]

NoArgs == [none |-> TRUE]

\* The state after KineticModel(...), the TransitionState objects and
\* Solver(model, stimulation) are constructed.
Constructed ==
    /\ transition_states_set = FALSE
    /\ transition_states = << >>
    /\ transitions_set = FALSE
    /\ transitions = << >>
    /\ vesicles_in = [n \in PoolObjects |-> 0]
    /\ resting_state = EmptyDict
    /\ init_flag = "None"
    /\ init_resting_state = "None"
    /\ results_table = << >>
    /\ pc = "idle"
    /\ call = "none"
    /\ request = NoArgs
    /\ outcome = "none"
    /\ calls = {}
    /\ attempt = 0 /\ window_width = 0 /\ tolerance = 0
    /\ repeat = 0 /\ time_end = 0 /\ time_save = 0
    /\ resting_state_simulation = FALSE
    /\ save_transitions = {}
    /\ overshoot = FALSE
    /\ i = 0 /\ t = 0 /\ tsave = 0
    /\ dummy_transitions = EmptyDict
    /\ results = << >>
    /\ events = << >>
    /\ state = EmptyDict
    /\ success = FALSE

\* No helper is evaluated on its own.
Init ==
    /\ Constructed
    /\ given = NoArgs
    /\ returned = NoArgs

\* The locals of a call that has ended are gone.
FreshLoop ==
    /\ i' = 0 /\ t' = 0 /\ tsave' = 0
    /\ dummy_transitions' = EmptyDict
    /\ results' = << >>
    /\ events' = << >>

DropLocals ==
    /\ attempt' = 0 /\ window_width' = 0 /\ tolerance' = 0
    /\ repeat' = 0 /\ time_end' = 0 /\ time_save' = 0
    /\ resting_state_simulation' = FALSE
    /\ save_transitions' = {}
    /\ overshoot' = FALSE
    /\ FreshLoop

\* A call ends, normally ("ok") or by the named exception.
EndCall(how) ==
    /\ pc' = "idle"
    /\ outcome' = how
    /\ DropLocals

Solver_vars == << table_vars, calls, arg_vars, loop_vars >>

\* `state` and `success` are locals of resting_state(): they are kept from
\* its return until the user's next call.
ForgetTest ==
    /\ state' = EmptyDict
    /\ success' = FALSE

\* ---------------------------------------------------- KineticModel methods
\* add_transition_states(transition_states)
AddTransitionStates(list) ==
    /\ pc = "idle"
    /\ UNCHANGED helper_vars
    /\ ForgetTest
    /\ transition_states_set' = TRUE
    /\ transition_states' = dict_keys(list)
    /\ call' = "add_transition_states"
    /\ request' = NoArgs
    /\ outcome' = "ok"
    /\ UNCHANGED << transitions_set, transitions, vesicles_in, resting_state,
                    init_flag, init_resting_state, pc, Solver_vars >>

\* add_transitions(transitions)
AddTransitions(list) ==
    /\ pc = "idle"
    /\ UNCHANGED helper_vars
    /\ ForgetTest
    /\ transitions_set' = TRUE
    /\ transitions' = dict_items(list)
    /\ call' = "add_transitions"
    /\ request' = NoArgs
    /\ outcome' = "ok"
    /\ UNCHANGED << transition_states_set, transition_states, vesicles_in,
                    resting_state, init_flag, init_resting_state, pc,
                    Solver_vars >>

\* init(): on a model without pools, None.values() raises AttributeError.
ModelInit ==
    /\ pc = "idle"
    /\ UNCHANGED helper_vars
    /\ ForgetTest
    /\ call' = "init"
    /\ request' = NoArgs
    /\ IF ~transition_states_set
       THEN /\ outcome' = "AttributeError"
            /\ UNCHANGED << vesicles_in, resting_state, init_flag,
                            init_resting_state >>
       ELSE /\ vesicles_in' = InitCounts
            /\ resting_state' = [n \in Range(transition_states) |-> InitCounts[n]]
            /\ init_flag' = "True"
            /\ init_resting_state' = "False"
            /\ outcome' = "ok"
    /\ UNCHANGED << transition_states_set, transition_states, transitions_set,
                    transitions, pc, Solver_vars >>

\* set_initial_state(dictionary_state), called by the user.
SetInitialState(mapping) ==
    /\ pc = "idle"
    /\ UNCHANGED helper_vars
    /\ ForgetTest
    /\ call' = "set_initial_state"
    /\ request' = [dictionary_state |-> mapping]
    /\ IF ~transition_states_set
       THEN /\ outcome' = "AttributeError"
            /\ UNCHANGED vesicles_in
       ELSE LET r == set_initial_state(mapping)
            IN /\ vesicles_in' = r.counts
               /\ outcome' = IF r.error = "none" THEN "ok" ELSE r.error
    /\ UNCHANGED << transition_states_set, transition_states, transitions_set,
                    transitions, resting_state, init_flag, init_resting_state,
                    pc, Solver_vars >>

\* set_resting_state(), called by the user.
SetRestingState ==
    /\ pc = "idle"
    /\ UNCHANGED helper_vars
    /\ ForgetTest
    /\ call' = "set_resting_state"
    /\ request' = NoArgs
    /\ IF ~transition_states_set
       THEN /\ outcome' = "AttributeError"
            /\ UNCHANGED resting_state
       ELSE /\ resting_state' = get_current_state
            /\ outcome' = "ok"
    /\ UNCHANGED << transition_states_set, transition_states, transitions_set,
                    transitions, vesicles_in, init_flag, init_resting_state,
                    pc, Solver_vars >>

\* The user assigns model._init_resting_state = True: the attribute is
\* set to True by no method of the model.
EstablishRestingFlag ==
    /\ pc = "idle"
    /\ UNCHANGED helper_vars
    /\ ForgetTest
    /\ init_flag = "True"
    /\ init_resting_state = "False"
    /\ init_resting_state' = "True"
    /\ call' = "_init_resting_state"
    /\ request' = NoArgs
    /\ outcome' = "ok"
    /\ UNCHANGED << transition_states_set, transition_states, transitions_set,
                    transitions, vesicles_in, resting_state, init_flag,
                    pc, Solver_vars >>

\* ---------------------------------------------------------- Solver methods
\* The user calls resting_state() and run() in any order and any number of
\* times.  Calls that raise at a precondition are not limited; of the calls
\* that simulate, a behaviour has at most one resting_state() followed by at
\* most one run(), the order of use in main.py and in the tests.
\* __gillespie is entered: results = [] and the for loop is reached.
EnterGillespie(rep, te, ts, rss, st, ov) ==
    /\ overshoot' = ov
    /\ repeat' = rep
    /\ time_end' = te
    /\ time_save' = ts
    /\ resting_state_simulation' = rss
    /\ save_transitions' = st
    /\ FreshLoop
    /\ pc' = "for"
    /\ outcome' = "running"

\* resting_state(time_end, window_width, tolerance)
RestingStateCall(te, width, tol, ov) ==
    /\ pc = "idle"
    /\ UNCHANGED helper_vars
    /\ call' = "resting_state"
    /\ request' = NoArgs
    /\ ForgetTest
    /\ IF init_flag # "True"
       THEN /\ EndCall("AssertionError")
            /\ UNCHANGED calls
       ELSE /\ calls = {}
            /\ calls' = calls \cup {"resting_state"}
            /\ attempt' = 1
            /\ window_width' = width
            /\ tolerance' = tol
            /\ EnterGillespie(1, te, RestingTimeSave, TRUE, {}, ov)
    /\ UNCHANGED << model_vars, table_vars >>

\* run() without its assertion on _init_resting_state.
RunPreconditionUngated(method, st) ==
    IF st # {} /\ ~transitions_set THEN "AttributeError"
    ELSE IF \E element \in st : element \notin Names(transitions)
    THEN "ValueError"
    ELSE IF method # "gillespie" THEN "ValueError"
    ELSE "none"

\* run() without the check of save_transitions against the transitions.
RunPreconditionUnchecked(method, st) ==
    IF init_resting_state # "True" THEN "AssertionError"
    ELSE IF method # "gillespie" THEN "ValueError"
    ELSE "none"

\* What run() raises before it simulates, "none" if nothing.
RunPrecondition(method, st) ==
    IF init_resting_state # "True" THEN "AssertionError"
    ELSE IF st # {} /\ ~transitions_set THEN "AttributeError"
    ELSE IF \E element \in st : element \notin Names(transitions)
    THEN "ValueError"
    ELSE IF method # "gillespie" THEN "ValueError"
    ELSE "none"

\* run(repeat, time_end, time_save, method, save_transitions)
RunCall(rep, te, ts, method, st, ov) ==
    /\ pc = "idle"
    /\ UNCHANGED helper_vars
    /\ call' = "run"
    /\ request' = [method |-> method, save_transitions |-> st]
    /\ ForgetTest
    /\ LET raised == RunPrecondition(method, st)
       IN IF raised # "none"
          THEN /\ EndCall(raised)
               /\ UNCHANGED calls
          ELSE /\ "run" \notin calls
               /\ calls' = calls \cup {"run"}
               /\ UNCHANGED << attempt, window_width, tolerance >>
               /\ EnterGillespie(rep, te, ts, FALSE, st, ov)
    /\ UNCHANGED << model_vars, table_vars >>

\* A repetition that starts from the counts the previous trajectory left.
BeginRepetitionNoReset ==
    /\ pc = "for"
    /\ i < repeat
    /\ pc' = "while"
    /\ t' = 0
    /\ tsave' = 0
    /\ dummy_transitions' = list2dictzero(save_transitions)
    /\ events' = << >>
    /\ UNCHANGED << model_vars, table_vars, call, request, outcome, calls,
                    arg_vars, i, results, test_vars, helper_vars >>

\* A repetition that starts with the running tallies of the previous one.
BeginRepetitionKeepsTallies ==
    /\ pc = "for"
    /\ UNCHANGED helper_vars
    /\ i < repeat
    /\ LET r == set_initial_state(resting_state)
       IN /\ vesicles_in' = r.counts
          /\ IF r.error # "none"
             THEN EndCall(r.error)
             ELSE /\ pc' = "while"
                  /\ t' = 0
                  /\ tsave' = 0
                  /\ dummy_transitions' = IF i = 0 THEN list2dictzero(save_transitions)
                                       ELSE dummy_transitions
                  /\ events' = << >>
                  /\ UNCHANGED << i, results, outcome, arg_vars >>
    /\ UNCHANGED << transition_states_set, transition_states, transitions_set,
                    transitions, resting_state, init_flag, init_resting_state,
                    table_vars, call, request, calls, test_vars >>

\* for i in trange(repeat): the model is put into its resting state.
BeginRepetition ==
    /\ pc = "for"
    /\ UNCHANGED helper_vars
    /\ i < repeat
    /\ LET r == set_initial_state(resting_state)
       IN /\ vesicles_in' = r.counts
          /\ IF r.error # "none"
             THEN EndCall(r.error)
             ELSE /\ pc' = "while"
                  /\ t' = 0
                  /\ tsave' = 0
                  /\ dummy_transitions' = list2dictzero(save_transitions)
                  /\ events' = << >>
                  /\ UNCHANGED << i, results, outcome, arg_vars >>
    /\ UNCHANGED << transition_states_set, transition_states, transitions_set,
                    transitions, resting_state, init_flag, init_resting_state,
                    table_vars, call, request, calls, test_vars >>

\* An iteration that ends the call quietly when no transition is feasible.
IterationErrorHalts ==
    IF ~transitions_set THEN "AttributeError"
    ELSE IF DanglingOrigin # 0 THEN "KeyError"
    ELSE IF SumSeq(Propensities(t, resting_state_simulation)) = 0
    THEN "ok"
    ELSE "none"

\* The error an iteration raises before any draw, "none" if it raises none.
IterationError ==
    IF ~transitions_set THEN "AttributeError"
    ELSE IF DanglingOrigin # 0 THEN "KeyError"
    ELSE IF SumSeq(Propensities(t, resting_state_simulation)) = 0
    THEN "ZeroDivisionError"
    ELSE "none"

\* An iteration of the while loop that raises while the propensities and the
\* next event time are computed.
IterationRaises ==
    /\ pc = "while"
    /\ UNCHANGED helper_vars
    /\ NotBeyond(tsave, time_end)
    /\ IterationError # "none"
    /\ EndCall(IterationError)
    /\ UNCHANGED << model_vars, table_vars, call, request, calls, test_vars >>

\* The smallest advance of the event time the model lets the draw produce.
MinDt == IF Len(SelectSeq(events, LAMBDA e : e.dt = 0)) < MaxStalled THEN 0 ELSE 1

\* add_vesicle without the increment: the vesicle taken from the origin is
\* lost.
AddVesicleLost(counts, destination) == counts

\* pop_vesicle that takes two vesicles.
PopVesicleTwice(counts, origin) == [counts EXCEPT ![origin] = @ - 2]

\* The counts after the selected transition is executed.
PopVesicle(counts, origin) == [counts EXCEPT ![origin] = @ - 1]
AddVesicle(counts, destination) == [counts EXCEPT ![destination] = @ + 1]

\* One iteration of the while loop: next event time, emission of the rows
\* reached, selection and execution of one transition.
Iteration(dt, random_a0) ==
    /\ pc = "while"
    /\ UNCHANGED helper_vars
    /\ NotBeyond(tsave, time_end)
    /\ IterationError = "none"
    /\ LET a == Propensities(t, resting_state_simulation)
           tnext == t + dt
           em == EmitRows(results, tsave, dummy_transitions, tnext, i)
           transition == transitions[SelectTransition(a, random_a0)]
           popped == PopVesicle(vesicles_in, transition.origin)
       IN /\ random_a0 < SumSeq(a)
          /\ IF transition.destination \notin Range(transition_states)
             THEN /\ vesicles_in' = popped
                  /\ EndCall("KeyError")
             ELSE /\ vesicles_in' = AddVesicle(popped, transition.destination)
                  /\ t' = tnext
                  /\ tsave' = em.tsave
                  /\ results' = em.rows
                  /\ dummy_transitions' =
                        IF transition.name \in save_transitions
                        THEN [em.fired EXCEPT ![transition.name] = @ + 1]
                        ELSE em.fired
                  /\ events' = Append(events,
                        [time |-> tnext, dt |-> dt, name |-> transition.name,
                         a |-> a,
                         propensity |-> a[SelectTransition(a, random_a0)]])
                  /\ UNCHANGED << i, pc, outcome, arg_vars >>
    /\ UNCHANGED << transition_states_set, transition_states, transitions_set,
                    transitions, resting_state, init_flag, init_resting_state,
                    table_vars, call, request, calls, test_vars >>

\* The end of a while loop that also ends the for loop.
EndRepetitionLast ==
    /\ pc = "while"
    /\ UNCHANGED helper_vars
    /\ ~NotBeyond(tsave, time_end)
    /\ pc' = "for"
    /\ i' = repeat
    /\ UNCHANGED << model_vars, table_vars, call, request, outcome, calls,
                    arg_vars, t, tsave, dummy_transitions, results, events,
                    test_vars >>

\* The end of a while loop that puts the pools back into the resting state.
EndRepetitionResets ==
    /\ pc = "while"
    /\ UNCHANGED helper_vars
    /\ ~NotBeyond(tsave, time_end)
    /\ pc' = "for"
    /\ i' = i + 1
    /\ vesicles_in' = set_initial_state(resting_state).counts
    /\ UNCHANGED << transition_states_set, transition_states, transitions_set,
                    transitions, resting_state, init_flag, init_resting_state,
                    table_vars, call, request, outcome, calls,
                    arg_vars, t, tsave, dummy_transitions, results, events,
                    test_vars >>

\* The while loop ends: tsave > time_end.
EndRepetition ==
    /\ pc = "while"
    /\ UNCHANGED helper_vars
    /\ ~NotBeyond(tsave, time_end)
    /\ pc' = "for"
    /\ i' = i + 1
    /\ UNCHANGED << model_vars, table_vars, call, request, outcome, calls,
                    arg_vars, t, tsave, dummy_transitions, results, events,
                    test_vars >>

\* run() after the for loop: __save_results and return.
FinishRun ==
    /\ pc = "for"
    /\ UNCHANGED helper_vars
    /\ ~(i < repeat)
    /\ ~resting_state_simulation
    /\ results_table' = results
    /\ EndCall("ok")
    /\ UNCHANGED << model_vars, call, request, calls, test_vars >>

\* The call self.__model.set_resting_state(state) against the signature of
\* KineticModel.set_resting_state.
CallSetRestingState == 
    IF SetRestingStateArgs # SetRestingStateParams THEN "TypeError" ELSE "ok"

\* resting_state() without the handler of ValueError in __resting_test: the
\* ValueError of idxmin() on an empty selection ends the call.
FinishAttemptUncaught ==
    /\ pc = "for"
    /\ UNCHANGED helper_vars
    /\ ~(i < repeat)
    /\ resting_state_simulation
    /\ success' = resting_test_success(results, window_width, tolerance)
    /\ IF success'
       THEN /\ state' \in AcceptedStates(results, window_width, tolerance)
            /\ EndCall(CallSetRestingState)
       ELSE /\ state' = EmptyDict
            /\ EndCall("ValueError")
    /\ UNCHANGED << model_vars, table_vars, call, request, calls >>

\* resting_state() after an attempt: __save_results (the table it stores is
\* the list `results`, which get_resting_simulation hands to __resting_test),
\* then set_resting_state(state) on success, the next attempt or the return.
FinishAttempt ==
    /\ pc = "for"
    /\ UNCHANGED helper_vars
    /\ ~(i < repeat)
    /\ resting_state_simulation
    /\ success' = resting_test_success(results, window_width, tolerance)
    /\ IF success'
       THEN /\ state' \in AcceptedStates(results, window_width, tolerance)
            /\ IF CallSetRestingState = "ok"
               THEN /\ resting_state' = get_current_state
                    /\ EndCall("ok")
               ELSE /\ UNCHANGED resting_state
                    /\ EndCall(CallSetRestingState)
       ELSE /\ state' = EmptyDict
            /\ UNCHANGED resting_state
            /\ IF attempt < Attempts
               THEN /\ attempt' = attempt + 1
                    /\ UNCHANGED << window_width, tolerance >>
                    /\ EnterGillespie(1, time_end, RestingTimeSave, TRUE, {},
                                      overshoot)
               ELSE EndCall("ok")
    /\ UNCHANGED << transition_states_set, transition_states, transitions_set,
                    transitions, vesicles_in, init_flag, init_resting_state,
                    results_table, call, request, calls >>

\* ---------------------------------------------------------- specifications
TimeEnds == 0..MaxTimeEnd
TimeSaves == {1, 2}
WindowWidths == {1, 2}
Tolerances == {0, 50}

\* Rounding of the accumulated save time matters where a positive number
\* of increments stands for time_end itself; both outcomes occur (time_end
\* 1.0 with time_save 0.01 exceeds, time_end 3 with time_save 1 does not).
Overshoots(te, ts) == IF te > 0 /\ te % ts = 0 THEN BOOLEAN ELSE {FALSE}

Build ==
    \/ \E list \in PoolLists : ~transition_states_set /\ AddTransitionStates(list)
    \/ \E list \in TransitionLists : ~transitions_set /\ AddTransitions(list)
    \/ ModelInit

\* The draws random() * a0 of an iteration that raises nothing.
Draws ==
    IF pc = "while" /\ IterationError = "none"
    THEN 0..(SumSeq(Propensities(t, resting_state_simulation)) - 1)
    ELSE {}

Gillespie ==
    \/ BeginRepetition
    \/ IterationRaises
    \/ \E dt \in MinDt..MaxDt, random_a0 \in Draws : Iteration(dt, random_a0)
    \/ EndRepetition

Next ==
    \/ Build
    \/ \E te \in TimeEnds, width \in WindowWidths, tol \in Tolerances :
          \E ov \in Overshoots(te, RestingTimeSave) :
              RestingStateCall(te, width, tol, ov)
    \/ \E rep \in 1..MaxRows, te \in TimeEnds, ts \in TimeSaves,
          method \in Methods, st \in SaveTransitionsInputs :
          \E ov \in Overshoots(te, ts) :
              /\ rep * (te \div ts + 1) <= MaxRows
              /\ RunCall(rep, te, ts, method, st, ov)
    \/ Gillespie
    \/ FinishAttempt

Spec == Init /\ [][Next]_vars

\* The same, with a user who marks the resting state as established.
NextRun ==
    \/ Next
    \/ EstablishRestingFlag
    \/ FinishRun

SpecRun == Init /\ [][NextRun]_vars

\* run() calls on a model with an established flag, with the interpreter
\* that keeps executing a call in progress: the loops of __gillespie and the
\* code after them are not abandoned.
NextLive ==
    \/ Build
    \/ EstablishRestingFlag
    \/ \E rep \in 1..MaxRows, te \in TimeEnds, ts \in TimeSaves :
          \E ov \in Overshoots(te, ts) :
              /\ rep * (te \div ts + 1) <= MaxRows
              /\ RunCall(rep, te, ts, "gillespie", {}, ov)
    \/ Gillespie
    \/ FinishRun

SpecLive ==
    /\ Init
    /\ [][NextLive]_vars
    /\ WF_vars(Gillespie)
    /\ WF_vars(FinishRun)

\* The KineticModel alone, with a user who registers lists again and sets
\* initial and resting states.
Mappings ==
    UNION { [S -> 0..Vesicles] : S \in SUBSET PoolObjects }

NextModel ==
    \/ \E list \in PoolLists \cup { <<Docked>> } : AddTransitionStates(list)
    \/ \E list \in TransitionLists : AddTransitions(list)
    \/ ModelInit
    \/ \E mapping \in Mappings : SetInitialState(mapping)
    \/ SetRestingState

SpecModel == Init /\ [][NextModel]_vars

\* Helpers evaluated on their own, on arguments drawn from bounded sets.
\* The dicts a with a0 > 0.
PropensityDicts ==
    { a \in UNION { [1..n -> 0..MaxPropensity] : n \in 1..MaxTransitions } :
         SumSeq(a) > 0 }

\* The selection of solver.py:338-346 for every draw random() * a0.
Selection(a) == [u2 \in 0..(SumSeq(a) - 1) |-> SelectTransition(a, u2)]

\* Tables handed to __resting_test, of a model with one or two vesicles
\* more than the Solver's (an odd and an even total): three pools, every
\* row a distribution of the vesicles,
\* 2 * window_width + 1 rows (the shortest table in which the change of a
\* kept row is defined); the counts change every window_width rows.
Primed == "Primed"
HelperPools == {Primed, Docked, Fusion}
HelperVesicles == {Vesicles + 1, Vesicles + 2}
HelperCounts(total) ==
    { c \in [HelperPools -> 0..total] : SumDict(c) = total }

Tables(width, total) ==
    { [k \in 1..(2 * width + 1) |->
          Row(0, k - 1, c[(k - 1) \div width + 1], EmptyDict)] :
         c \in [1..3 -> HelperCounts(total)] }

HelperTolerances == {50}

\* Parameters of Stimulation(type_stimulus = 'exponential_decay', ...), and
\* the times stimuli() is evaluated at.
StartTimes == {0, 1}
ConditionalStimuli == {1, 2}
Periods == {1, 3}
Taus == {1, 2}
WaitTimes == {0, 1, 2, 4}
Intensities == {4}

Protocols ==
    { [type_stimulus |-> "exponential_decay", time_start_stimulation |-> start,
       conditional_stimuli |-> n, period |-> period, tau_stimulus |-> tau,
       time_wait_test |-> wait, intensity_stimulus |-> intensity] :
         start \in StartTimes, n \in ConditionalStimuli, period \in Periods,
         tau \in Taus, wait \in WaitTimes, intensity \in Intensities }

\* Arguments type_stimulus and func of Stimulation(...): func is a function
\* object or the default None.
TypesStimulus == {"exponential_decay", "customized", "linear_decay"}
Funcs == {"FunctionType", "None"}

\* What Stimulation.__init__ raises, "none" when it returns.
StimulationInit(type_stimulus, func) ==
    IF type_stimulus = "customized"
    THEN IF func = "FunctionType" THEN "none" ELSE "AssertionError"
    ELSE IF type_stimulus # "exponential_decay" THEN "ValueError" ELSE "none"

HelperInputs ==
    { [helper |-> "select", a |-> a] : a \in PropensityDicts }
    \cup { [helper |-> "Stimulation", type_stimulus |-> type, func |-> f,
            parameters |-> p] :
             type \in TypesStimulus, f \in Funcs, p \in Protocols }
    \cup { [helper |-> "stimuli", stimulation |-> p, t |-> time] :
             p \in Protocols, time \in 0..MaxTime }
    \cup UNION { { [helper |-> "resting_test", vesicles |-> total,
                    dataframe |-> rows,
                    window_width |-> width, tolerance |-> tol] :
                       rows \in Tables(width, total),
                       tol \in HelperTolerances } :
                  width \in WindowWidths, total \in HelperVesicles }

InitHelpers ==
    /\ Constructed
    /\ given \in HelperInputs
    /\ returned = NoArgs

Select ==
    /\ given.helper = "select"
    /\ returned = NoArgs
    /\ returned' = [chosen |-> Selection(given.a)]
    /\ UNCHANGED << given, machine_vars >>

\* __resting_test(dataframe, window_width, tolerance)
RestingTest ==
    /\ given.helper = "resting_test"
    /\ returned = NoArgs
    /\ IF resting_test_success(given.dataframe, given.window_width,
                               given.tolerance)
       THEN \E accepted \in AcceptedStates(given.dataframe, given.window_width,
                                           given.tolerance) :
               returned' = [state |-> accepted, success |-> TRUE]
       ELSE returned' = [state |-> EmptyDict, success |-> FALSE]
    /\ UNCHANGED << given, machine_vars >>

\* Stimulation.stimuli(t) of a built-in protocol
Stimuli ==
    /\ given.helper = "stimuli"
    /\ returned = NoArgs
    /\ returned' = [value |-> exponential_decay(given.stimulation, given.t)]
    /\ UNCHANGED << given, machine_vars >>

\* Stimulation(type_stimulus, ..., func): the exception that leaves the
\* constructor, and whether the caller got an object.
NewStimulation ==
    /\ given.helper = "Stimulation"
    /\ returned = NoArgs
    /\ LET raised == StimulationInit(given.type_stimulus, given.func)
       IN returned' = [raised |-> raised, object |-> raised = "none"]
    /\ UNCHANGED << given, machine_vars >>

NextHelpers ==
    \/ NewStimulation
    \/ Select
    \/ RestingTest
    \/ Stimuli

SpecHelpers == InitHelpers /\ [][NextHelpers]_vars

\* ------------------------------------------------------------------ claims
Conserved(counts) == SumDict(counts) = Vesicles

RowsConserved(rows) == \A k \in 1..Len(rows) : Conserved(rows[k].state)

\* C1: the pool counts sum to the total between the events of a trajectory,
\* in every emitted row (of the trajectory in progress and of the stored
\* table), in the state a converged resting test returns after rounding, and
\* when init(), resting_state() or run() returns.
C1_Conservation ==
    /\ RowsConserved(results)
    /\ RowsConserved(results_table)
    /\ pc = "while" => Conserved(get_current_state)
    /\ (pc = "idle" /\ outcome = "ok"
            /\ call \in {"init", "resting_state", "run"})
          => Conserved(get_current_state)
    /\ success => Conserved(state)

\* run() has returned a table with a row in which a vesicle has left the
\* first-declared pool.
C1_Witness ==
    /\ pc = "idle" /\ call = "run" /\ outcome = "ok"
    /\ \E k \in 1..Len(results_table) :
          results_table[k].state[transition_states[1]] < Vesicles

\* C2: no pool count is negative, in the pools and in the emitted rows, and
\* every executed transition had a strictly positive propensity (its origin
\* pool held a vesicle), so zero-propensity transitions are never selected.
C2_NonNegative ==
    /\ \A n \in PoolObjects : vesicles_in[n] >= 0
    /\ \A k \in 1..Len(results) :
          \A n \in DOMAIN results[k].state : results[k].state[n] >= 0
    /\ \A k \in 1..Len(results_table) :
          \A n \in DOMAIN results_table[k].state : results_table[k].state[n] >= 0
    /\ \A k \in 1..Len(events) : events[k].propensity > 0

\* A trajectory has executed events although its first transition has
\* propensity zero and a pool is empty.
C2_Witness ==
    /\ pc = "while"
    /\ Len(events) >= 2
    /\ transitions[1].rate = 0
    /\ \E n \in Range(transition_states) : vesicles_in[n] = 0

\* A step in which the user calls the Solver method `method`.
Calls(method) == pc = "idle" /\ call' = method

\* The call raised AssertionError and changed nothing: no trajectory was
\* started, the model and the stored table are as before.
Refused ==
    /\ outcome' = "AssertionError"
    /\ pc' = "idle"
    /\ results' = << >>
    /\ UNCHANGED << model_vars, table_vars, calls >>

\* C3: resting_state() on a model that is not initialized, and run() on a
\* model whose resting state is not flagged established, raise
\* AssertionError, simulate nothing and leave the pool counts unchanged.
C3_LifecycleGating ==
    [][ /\ (Calls("resting_state") /\ init_flag # "True") => Refused
        /\ (Calls("run") /\ init_resting_state # "True") => Refused ]_vars

\* run() was refused on an initialized model on which no resting state was
\* searched.
C3_Witness ==
    /\ call = "run" /\ outcome = "AssertionError"
    /\ init_flag = "True" /\ calls = {}

\* C4: a resting_state() call whose test converged stores the state the
\* test returned as the model's resting state, flags the resting state as
\* established (so that run() is admitted) and returns normally.
C4_SuccessEstablishes ==
    (pc = "idle" /\ call = "resting_state" /\ success)
        => /\ outcome = "ok"
           /\ resting_state = state
           /\ init_resting_state = "True"

\* The search converged and the call ended in TypeError: the flag is still
\* False and the resting state is not the state found.
C4_Witness ==
    /\ pc = "idle" /\ call = "resting_state" /\ success
    /\ outcome = "TypeError"
    /\ init_resting_state = "False"
    /\ resting_state # state

\* The arguments of the call do not pass run()'s validation.
BadArguments ==
    \/ \E element \in request.save_transitions :
          element \notin Names(transitions)
    \/ request.method # "gillespie"

\* The call raised ValueError before any simulation step: pool counts,
\* resting state and the stored table are as before.
Rejected ==
    /\ outcome' = "ValueError"
    /\ pc' = "idle"
    /\ results' = << >>
    /\ UNCHANGED << model_vars, table_vars, calls >>

\* C5: on a model with transitions and an established resting state, run()
\* with a save_transitions name that is no declared transition, or with a
\* method other than "gillespie", raises ValueError before any step and
\* leaves pool counts, resting state and stored results unchanged.
C5_ArgumentValidation ==
    [][ (Calls("run") /\ init_resting_state = "True" /\ transitions_set
            /\ BadArguments') => Rejected ]_vars

\* run() rejected an undeclared name after an earlier run() had stored a
\* table.
C5_Witness ==
    /\ call = "run" /\ outcome = "ValueError"
    /\ request.method = "gillespie"
    /\ "TX" \in request.save_transitions
    /\ Len(results_table) > 0

\* C6: after init() the first-declared pool holds the total and every other
\* registered pool holds zero, whatever the counts were before; the resting
\* state equals this state; the model is flagged initialized and its
\* resting state not established; only init() flags a model initialized.
C6_InitSeeding ==
    /\ init_flag # "True"
    /\ [][ /\ (Calls("init") /\ transition_states_set)
                => /\ outcome' = "ok"
                   /\ \A n \in Range(transition_states) :
                         vesicles_in'[n] =
                            IF n = transition_states[1] THEN Vesicles ELSE 0
                   /\ resting_state' = get_current_state'
                   /\ init_flag' = "True"
                   /\ init_resting_state' = "False"
           /\ init_flag' # init_flag => Calls("init") ]_vars

\* init() has returned on a model with two pools.
C6_Witness ==
    /\ call = "init" /\ outcome = "ok"
    /\ Len(transition_states) = 2
    /\ vesicles_in[transition_states[1]] = Vesicles
    /\ vesicles_in[transition_states[2]] = 0

\* Every transition's origin and destination is a registered pool.
NoDangling ==
    \A k \in 1..Len(transitions) :
        /\ transitions[k].origin \in Range(transition_states)
        /\ transitions[k].destination \in Range(transition_states)

\* C7: init() does not succeed on a model one of whose registered
\* transitions names an origin or destination that is no registered pool.
C7_DanglingRejectedByInit ==
    (call = "init" /\ outcome = "ok" /\ transitions_set) => NoDangling

\* The dangling reference shows up inside a trajectory, as a KeyError of
\* resting_state() on the initialized model.
C7_Witness ==
    /\ call = "resting_state" /\ outcome = "KeyError"
    /\ init_flag = "True"
    /\ ~NoDangling

\* C8: set_initial_state with a mapping that holds every declared pool sets
\* each declared pool to the mapped count; keys that name no declared pool
\* are ignored and create no pool; with a declared pool missing from the
\* mapping the call fails with an error.
C8_SetInitialState ==
    [][ (Calls("set_initial_state") /\ transition_states_set)
          => LET mapping == request'.dictionary_state
             IN /\ UNCHANGED << transition_states_set, transition_states >>
                /\ DOMAIN vesicles_in' = DOMAIN vesicles_in
                /\ IF Range(transition_states) \subseteq DOMAIN mapping
                   THEN /\ outcome' = "ok"
                        /\ \A n \in PoolObjects :
                              vesicles_in'[n] =
                                 IF n \in Range(transition_states)
                                 THEN mapping[n] ELSE vesicles_in[n]
                   ELSE outcome' \notin {"ok", "running"} ]_vars

\* A complete mapping with an extra key was applied to a model whose only
\* declared pool is Docked: the undeclared Fusion object keeps its count.
C8_Witness ==
    /\ call = "set_initial_state" /\ outcome = "ok"
    /\ transition_states = << Docked >>
    /\ DOMAIN request.dictionary_state = PoolObjects
    /\ vesicles_in[Docked] = request.dictionary_state[Docked]
    /\ vesicles_in[Fusion] # request.dictionary_state[Fusion]

\* The save times 0, time_save, 2 * time_save, ... not beyond time_end.
GridTimes(te, ts) == [k \in 1..(te \div ts + 1) |-> (k - 1) * ts]

\* The times of the rows of repetition r, in the order of emission.
TimesOf(rows, r) ==
    LET sel == SelectSeq(rows, LAMBDA row : row.run = r)
    IN [k \in 1..Len(sel) |-> sel[k].time]

RunsOf(rows) == { rows[k].run : k \in 1..Len(rows) }

IsPrefix(a, b) == Len(a) <= Len(b) /\ a = SubSeq(b, 1, Len(a))

\* C9: in a call of run(), every finished repetition has emitted exactly one row per save time
\* 0, time_save, 2 * time_save, ... up to the largest one not beyond
\* time_end, in increasing order; the repetition in progress has emitted a
\* prefix of that grid; rows come in the order of the repetitions; in the
\* table run() stores, every repetition has the same save times.
C9_SaveTimeGrid ==
    /\ (pc \in {"for", "while"} /\ ~resting_state_simulation) =>
          /\ \A j, k \in 1..Len(results) :
                j < k => results[j].run <= results[k].run
          /\ RunsOf(results) \subseteq
                (IF pc = "while" THEN 0..i ELSE 0..(i - 1))
          /\ \A r \in 0..(i - 1) :
                TimesOf(results, r) = GridTimes(time_end, time_save)
          /\ pc = "while" =>
                /\ IsPrefix(TimesOf(results, i), GridTimes(time_end, time_save))
                /\ tsave = Len(TimesOf(results, i)) * time_save
    /\ (pc = "idle" /\ call = "run" /\ outcome = "ok") =>
          /\ 0 \in RunsOf(results_table)
          /\ \A r \in RunsOf(results_table) :
                /\ TimesOf(results_table, r) = TimesOf(results_table, 0)
                /\ TimesOf(results_table, r)[1] = 0

\* run() has finished its two repetitions; time_end equals time_save and
\* the row for time_end is missing in each of them.
C9_Witness ==
    /\ pc = "for" /\ ~resting_state_simulation
    /\ repeat = 2 /\ i = 2
    /\ time_end = time_save
    /\ TimesOf(results, 0) = << 0 >>
    /\ TimesOf(results, 1) = << 0 >>

\* The counts after one vesicle has moved along transition tr.
Transfer(counts, tr) ==
    [n \in DOMAIN counts |->
        counts[n] - (IF n = tr.origin THEN 1 ELSE 0)
                  + (IF n = tr.destination THEN 1 ELSE 0)]

TransitionNamed(name) ==
    transitions[CHOOSE k \in 1..Len(transitions) : transitions[k].name = name]

\* The counts after the events evs, in their order, from counts.
RECURSIVE After(_, _)
After(counts, evs) ==
    IF evs = << >> THEN counts
    ELSE After(Transfer(counts, TransitionNamed(Head(evs).name)), Tail(evs))

\* The events of the trajectory in progress with an event time before s.
EventsBefore(s) == SelectSeq(events, LAMBDA e : e.time < s)

\* C10: in the trajectory in progress, the row for save time s holds the
\* counts reached from the resting state by exactly the events whose event
\* time is strictly smaller than s; no event at a time >= s is reflected.
C10_SnapshotContent ==
    pc = "while" =>
        \A k \in 1..Len(results) :
            results[k].run = i =>
                results[k].state =
                    After(resting_state, EventsBefore(results[k].time))

\* A row for a save time s > 0 exists, an event happened before s and an
\* event happened at s: the row differs from the resting state and from the
\* current counts.
C10_Witness ==
    /\ pc = "while"
    /\ \E k \in 1..Len(results) :
          /\ results[k].run = i
          /\ results[k].time > 0
          /\ \E e \in Range(events) : e.time < results[k].time
          /\ \E e \in Range(events) : e.time = results[k].time
          /\ results[k].state # resting_state
          /\ results[k].state # get_current_state

\* The number of events of the trajectory in progress that fired the
\* transition `name` at an event time in [from, to).
Fired(name, from, to) ==
    Len(SelectSeq(events,
                  LAMBDA e : e.name = name /\ e.time >= from /\ e.time < to))

\* The event times of the trajectory in progress never reach LaterThanAll.
LaterThanAll == MaxDt * (Len(events) + 1) + 1

\* C11: every row has a tally for each transition of save_transitions and
\* for no other; in the trajectory in progress the tally of a row is the
\* number of firings since the previous row was emitted (those with an event
\* time from the previous save time up to the row's save time), and the
\* running tally holds the firings since the last emission only, so a firing
\* is counted in at most one row.
C11_FiringTallies ==
    pc \in {"for", "while"} =>
        /\ \A k \in 1..Len(results) : DOMAIN results[k].fired = save_transitions
        /\ pc = "while" =>
              /\ DOMAIN dummy_transitions = save_transitions
              /\ \A name \in save_transitions :
                    /\ \A k \in 1..Len(results) :
                          results[k].run = i =>
                              results[k].fired[name] =
                                  Fired(name, results[k].time - time_save,
                                        results[k].time)
                    /\ dummy_transitions[name] =
                          Fired(name, tsave - time_save, LaterThanAll)

\* A row of a run() that monitors T1 holds two firings of T1, and the
\* unmonitored T2 has fired as well.
C11_Witness ==
    /\ pc = "while" /\ ~resting_state_simulation
    /\ save_transitions = {"T1"}
    /\ \E k \in 1..Len(results) :
          results[k].run = i /\ results[k].fired["T1"] = 2
    /\ \E e \in Range(events) : e.name = "T2"

\* The sum of the first k propensities of a.
Cumulative(a, k) == SumSeq(SubSeq(a, 1, k))

\* C12: for propensities a with a0 > 0, every draw u2 in [0, a0) selects
\* exactly one transition, the first whose cumulative propensity strictly
\* exceeds u2; transition k is selected exactly for the draws from the
\* cumulative propensity before it up to its own, an interval of length
\* a[k], so a transition with propensity 0 is never selected.
C12_EventSelection ==
    (returned # NoArgs /\ given.helper = "select") =>
        LET a == given.a
            chosen == returned.chosen
        IN /\ DOMAIN chosen = 0..(SumSeq(a) - 1)
           /\ \A u2 \in DOMAIN chosen :
                 /\ chosen[u2] \in 1..Len(a)
                 /\ Cumulative(a, chosen[u2]) > u2
                 /\ \A j \in 1..(chosen[u2] - 1) : Cumulative(a, j) <= u2
                 /\ a[chosen[u2]] > 0
           /\ \A k \in 1..Len(a) :
                 { u2 \in DOMAIN chosen : chosen[u2] = k } =
                     Cumulative(a, k - 1)..(Cumulative(a, k) - 1)

\* The selection was made on three propensities, the first of them zero:
\* the draw 0 selects the second transition, the last draw the third.
C12_Witness ==
    /\ returned # NoArgs /\ given.helper = "select"
    /\ given.a = << 0, 2, 1 >>
    /\ returned.chosen[0] = 2
    /\ returned.chosen[2] = 3

\* The rate the claim prescribes: the base rate, plus the stimulus at the
\* current time for a calcium-dependent rate in an ordinary run.
EffectiveRate(tr, time, search) ==
    IF tr.calcium_dependent /\ ~search THEN tr.rate + stimuli(time) ELSE tr.rate

\* The counts before event k of the trajectory in progress.
CountsBefore(k) == After(resting_state, SubSeq(events, 1, k - 1))

\* C13: in every iteration of the trajectory in progress the propensity of
\* every transition was its effective rate times the count of its origin
\* pool at that moment; the stimulus, taken at the time of the previous
\* event, is added to calcium-dependent rates in run() only and to no rate
\* in a resting-state search.
C13_Propensity ==
    pc = "while" =>
        \A k \in 1..Len(events) :
            events[k].a =
                [j \in 1..Len(transitions) |->
                    EffectiveRate(transitions[j], events[k].time - events[k].dt,
                                  resting_state_simulation)
                        * CountsBefore(k)[transitions[j].origin]]

\* An iteration of run() took place while the stimulus was positive: the
\* calcium-dependent transition had a propensity above base rate times
\* count, the other transition its base rate times count.
C13_Witness ==
    /\ pc = "while" /\ ~resting_state_simulation
    /\ Len(transitions) = 2
    /\ transitions[1].calcium_dependent /\ ~transitions[2].calcium_dependent
    /\ \E k \in 1..Len(events) :
          /\ stimuli(events[k].time - events[k].dt) > 0
          /\ events[k].a[1] >
                transitions[1].rate * CountsBefore(k)[transitions[1].origin]
          /\ events[k].a[2] > 0

\* An iteration starts (the loop condition holds) on a model whose
\* transitions name registered origins, and no transition is feasible.
Absorbed ==
    /\ pc = "while"
    /\ NotBeyond(tsave, time_end)
    /\ transitions_set
    /\ DanglingOrigin = 0
    /\ SumSeq(Propensities(t, resting_state_simulation)) <= 0

C15_RepetitionsRestart ==
    /\ [] ((pc \in {"for", "while"} /\ ~resting_state_simulation) =>
             /\ \A k \in 1..Len(results) :
                   /\ results[k].time = 0 => results[k].state = resting_state
                   /\ k > 1 => results[k].run \in
                                  { results[k - 1].run, results[k - 1].run + 1 }
             /\ (pc = "for" /\ i = repeat) => RunsOf(results) = 0..(repeat - 1))
    /\ [][ /\ (pc = "for" /\ pc' = "while") =>
                 /\ get_current_state' = resting_state
                 /\ i' = i
           /\ (pc # "idle" /\ ~resting_state_simulation) =>
                 resting_state' = resting_state ]_vars

\* The second repetition of run() has just started: the pools hold the
\* resting state although the last row of the first repetition does not.
C15_Witness ==
    /\ pc = "while" /\ ~resting_state_simulation
    /\ i = 1 /\ events = << >>
    /\ Len(results) >= 2
    /\ results[Len(results)].run = 0
    /\ results[Len(results)].state # resting_state
    /\ get_current_state = resting_state

\* An attempt of resting_state() has ended and no row of its trajectory has
\* a change under the tolerance.
AttemptFailed ==
    /\ pc = "for" /\ resting_state_simulation /\ ~(i < repeat)
    /\ ~resting_test_success(results, window_width, tolerance)

\* C16: an attempt without a row under the tolerance raises nothing and
\* leaves the recorded resting state and the flag as they are; after the
\* last such attempt resting_state() returns normally; a resting_state()
\* that has returned normally has not converged and has not established the
\* resting state, and a run() that follows it is refused.
C16_NonConvergence ==
    /\ [] ((pc = "idle" /\ call = "resting_state" /\ outcome = "ok") =>
              (~success /\ init_resting_state # "True"))
    /\ [][ /\ AttemptFailed =>
                 /\ UNCHANGED << resting_state, init_resting_state >>
                 /\ IF attempt < Attempts
                    THEN pc' = "for" /\ outcome' = "running"
                    ELSE pc' = "idle" /\ outcome' = "ok"
           /\ (call' = "resting_state" /\ ~success') =>
                 UNCHANGED << resting_state, init_resting_state >>
           /\ (pc = "idle" /\ call = "resting_state" /\ outcome = "ok"
                 /\ call' = "run") => Refused ]_vars

\* resting_state() has simulated its attempts and returned normally without
\* a converged test.
C16_Witness ==
    /\ pc = "idle" /\ call = "resting_state" /\ outcome = "ok"
    /\ calls = {"resting_state"}
    /\ ~success
    /\ init_resting_state = "False"

\* The sum of the width rows of the table that end at row k, for pool n.
WindowAt(rows, k, width, n) ==
    SumOver([j \in (k - width + 1)..k |-> rows[j].state[n]], (k - width + 1)..k)

\* r is the mean sum / width rounded to a nearest integer.
NearestTo(r, sum, width) == 2 * Abs(width * r - sum) <= width

\* C17: the state a converged resting test returns sums to the total; its
\* pools hold the means of one window of the table rounded to a nearest
\* integer, except for at most one pool, which holds its rounded mean plus
\* the whole difference between the total and the sum of the rounded means.
C17_RoundingConserves ==
    (returned # NoArgs /\ given.helper = "resting_test" /\ returned.success) =>
        LET rows == given.dataframe
            width == given.window_width
        IN /\ DOMAIN returned.state = HelperPools
           /\ SumDict(returned.state) = given.vesicles
           /\ \E k \in width..Len(rows), one \in HelperPools :
                 \E rounded \in [HelperPools -> 0..given.vesicles] :
                     /\ \A n \in HelperPools :
                           NearestTo(rounded[n], WindowAt(rows, k, width, n), width)
                     /\ \A n \in HelperPools \ {one} :
                           returned.state[n] = rounded[n]
                     /\ returned.state[one] =
                            rounded[one] + given.vesicles - SumDict(rounded)

\* A test converged on window means whose rounded values do not sum to the
\* total, and returned a state that does.
C17_Witness ==
    /\ returned # NoArgs /\ given.helper = "resting_test" /\ returned.success
    /\ SumDict(Rounded(given.dataframe, given.window_width, given.tolerance))
          # given.vesicles
    /\ SumDict(returned.state) = given.vesicles

\* C18: while a call of resting_state() is in progress it is simulating its
\* first and only trajectory: no second trajectory is started by the same
\* call, whatever the resting test said of the first.
C18_SingleAttempt ==
    (pc # "idle" /\ resting_state_simulation) => attempt = 1

\* The first trajectory of a resting_state() call had no row under the
\* tolerance and the same call is simulating a second one.
C18_Witness ==
    /\ pc = "while" /\ resting_state_simulation
    /\ call = "resting_state"
    /\ attempt = 2
    /\ ~success
    /\ Len(results) > 0

\* The protocol and the time of a finished stimuli() evaluation, and the
\* boundaries the phases are stated with.
StimuliReturned == returned # NoArgs /\ given.helper = "stimuli"
StartTime == given.stimulation.time_start_stimulation
LastConditioning ==
    StartTime + (given.stimulation.conditional_stimuli - 1)
                    * given.stimulation.period
EndOfConditioning == LastConditioning + epsilon
TestTime == LastConditioning + given.stimulation.time_wait_test
Decayed(d) ==
    exp_decay(given.stimulation.intensity_stimulus, d,
              given.stimulation.tau_stimulus)

\* C19: a time before start_time gives 0; a time of the conditioning phase
\* that is before test_time gives the sawtooth decay; a time from the end of
\* conditioning up to test_time decays from the last conditioning pulse; and
\* every time from test_time on decays from test_time.
C19_PhaseClassification ==
    StimuliReturned =>
        /\ given.t < StartTime => returned.value = 0
        /\ (StartTime <= given.t /\ given.t < EndOfConditioning
              /\ given.t < TestTime) =>
                 returned.value =
                    Decayed((given.t - StartTime) % given.stimulation.period)
        /\ (EndOfConditioning <= given.t /\ given.t < TestTime) =>
                 returned.value = Decayed(given.t - LastConditioning)
        /\ given.t >= TestTime => returned.value = Decayed(given.t - TestTime)

\* A time at or after test_time was evaluated as conditioning phase and its
\* value is not the decay from test_time.
C19_Witness ==
    /\ StimuliReturned
    /\ given.t >= TestTime
    /\ given.t < EndOfConditioning
    /\ returned.value # Decayed(given.t - TestTime)

\* The pulse onsets of the protocol: the conditioning pulses and the test
\* pulse; and the latest of them at or before the evaluated time.
Onsets ==
    { StartTime + k * given.stimulation.period :
         k \in 0..(given.stimulation.conditional_stimuli - 1) } \cup {TestTime}

LatestOnset ==
    CHOOSE o \in Onsets : o <= given.t /\ \A q \in Onsets : q <= given.t => q <= o

\* C20: from start_time on, the stimulus is the intensity decayed over the
\* time elapsed since the latest pulse onset at or before t, the onsets
\* being the conditioning pulses and the test pulse.
C20_DecayFromLatestPulse ==
    (StimuliReturned /\ given.t >= StartTime) =>
        returned.value = Decayed(given.t - LatestOnset)

\* The stimulus was evaluated at the onset of the test pulse and is not the
\* intensity.
C20_Witness ==
    /\ StimuliReturned
    /\ given.t = TestTime
    /\ returned.value # given.stimulation.intensity_stimulus

\* C21: a Stimulation constructed with a type_stimulus that is neither
\* 'exponential_decay' nor 'customized' raises AssertionError and gives the
\* caller no object.
C21_InvalidTypeRejected ==
    (/\ returned # NoArgs /\ given.helper = "Stimulation"
     /\ given.type_stimulus \notin {"exponential_decay", "customized"}) =>
        /\ returned.raised = "AssertionError"
        /\ ~returned.object

\* The constructor was given an unknown type_stimulus and left with a
\* ValueError.
C21_Witness ==
    /\ returned # NoArgs /\ given.helper = "Stimulation"
    /\ given.type_stimulus = "linear_decay"
    /\ returned.raised = "ValueError"
    /\ ~returned.object

\* C22: a call of add_transition_states or add_transitions keeps every name
\* that was registered before it: the registry after the call holds the
\* names of the earlier calls as well as those of its own list.
C22_RegistriesAccumulate ==
    [][ /\ (call' = "add_transition_states" /\ transition_states_set) =>
               Range(transition_states) \subseteq Range(transition_states')
        /\ (call' = "add_transitions" /\ transitions_set) =>
               Names(transitions) \subseteq Names(transitions') ]_vars

\* Fusion was registered and seeded by init(); a later add_transition_states
\* with the list [Docked] has left a registry without it.
C22_Witness ==
    /\ call = "add_transition_states"
    /\ transition_states = << Docked >>
    /\ vesicles_in[Fusion] = Vesicles

\* A trajectory is being simulated; and it has stopped by leaving the while
\* loop with the save time beyond time_end, or by an exception.
InTrajectory == pc = "while"
TrajectoryStopped ==
    \/ pc = "for" /\ ~NotBeyond(tsave, time_end)
    \/ pc = "idle" /\ outcome \notin {"ok", "running"}

\* C23: every trajectory eventually leaves its loop with the save time
\* beyond time_end (or raises); every run() call eventually ends; once the
\* save time is beyond time_end the loop takes no further iteration; and a
\* run() that returns has simulated exactly `repeat` trajectories.
C23_Termination ==
    /\ InTrajectory ~> TrajectoryStopped
    /\ (call = "run" /\ pc # "idle") ~> (pc = "idle")
    /\ [][ /\ (pc = "while" /\ ~NotBeyond(tsave, time_end)) =>
                 /\ pc' = "for"
                 /\ UNCHANGED << vesicles_in, results, events, t, tsave >>
           /\ (call = "run" /\ pc = "for" /\ pc' = "idle" /\ outcome' = "ok") =>
                 /\ i = repeat
                 /\ RunsOf(results) = 0..(repeat - 1) ]_vars

\* run(repeat = 2, ...) has returned after two trajectories.
C23_Witness ==
    /\ pc = "idle" /\ call = "run" /\ outcome = "ok"
    /\ RunsOf(results_table) = {0, 1}

\* C24: the steps of a trajectory leave the pool counts of the model as
\* they are: neither the reset at the start of a repetition nor the
\* execution of a transition writes the counts held by the model's
\* TransitionState objects.
C24_ModelCountsUntouched ==
    [][ (pc = "for" \/ pc = "while") => UNCHANGED << vesicles_in >> ]_vars

\* A trajectory of run() has executed an event and the counts of the
\* model's own pools are no longer those of the resting state it began with.
C24_Witness ==
    /\ pc = "while" /\ call = "run"
    /\ Len(events) = 1
    /\ get_current_state # resting_state
    /\ Conserved(get_current_state)

\* C25: an iteration of the while loop that completes executes exactly one
\* transition: it takes exactly one vesicle from the origin and gives
\* exactly one to the destination; every other pool count, the recorded
\* resting state, the total and the registries of pools and transitions are
\* as before.
C25_UpdateAndFrame ==
    [][ (pc = "while" /\ pc' = "while" /\ vars' # vars) =>
          /\ Len(events') = Len(events) + 1
          /\ LET transition == TransitionNamed(events'[Len(events')].name)
                 others == DOMAIN vesicles_in \ {transition.origin,
                                                 transition.destination}
             IN /\ transition.origin # transition.destination
                /\ vesicles_in'[transition.origin] =
                      vesicles_in[transition.origin] - 1
                /\ vesicles_in'[transition.destination] =
                      vesicles_in[transition.destination] + 1
                /\ \A n \in others : vesicles_in'[n] = vesicles_in[n]
                /\ SumDict(get_current_state') = SumDict(get_current_state)
                /\ UNCHANGED << resting_state, transition_states, transitions,
                                transition_states_set, transitions_set >> ]_vars

\* Two events have been executed in a trajectory and have moved a vesicle
\* forth and back.
C25_Witness ==
    /\ pc = "while"
    /\ Len(events) = 2
    /\ events[1].name # events[2].name
    /\ get_current_state = resting_state

\* The first row emitted for repetition r.
FirstRowOf(rows, r) ==
    rows[CHOOSE k \in 1..Len(rows) :
            rows[k].run = r /\ \A j \in 1..(k - 1) : rows[j].run # r]

\* C26: in every repetition of a run or of a resting-state search the
\* first row is the row for save time 0, holds the recorded resting state
\* and a tally of 0 for every monitored transition; it exists as soon as the
\* repetition has executed an event; and a repetition starts with the
\* resting state in the pools and with running tallies of 0.
C26_FirstRow ==
    (pc = "for" \/ pc = "while") =>
        /\ \A r \in RunsOf(results) :
              /\ FirstRowOf(results, r).time = 0
              /\ FirstRowOf(results, r).state = resting_state
              /\ \A name \in save_transitions :
                    FirstRowOf(results, r).fired[name] = 0
        /\ (pc = "while" /\ events # << >>) => i \in RunsOf(results)
        /\ (pc = "while" /\ events = << >>) =>
              /\ i \notin RunsOf(results)
              /\ get_current_state = resting_state
              /\ \A name \in save_transitions : dummy_transitions[name] = 0

\* The second repetition of a run() that monitors T1 has emitted its first
\* row and executed an event.
C26_Witness ==
    /\ pc = "while" /\ ~resting_state_simulation
    /\ save_transitions = {"T1"}
    /\ i = 1
    /\ 1 \in RunsOf(results)
    /\ Len(events) >= 1
    /\ get_current_state # resting_state

\* The tallied firings of row that bring a vesicle into pool, less those
\* that take one out of it.
NetFlow(row, pool) ==
    LET into == { k \in 1..Len(transitions) : transitions[k].destination = pool }
        outof == { k \in 1..Len(transitions) : transitions[k].origin = pool }
    IN SumOver([k \in into |-> row.fired[transitions[k].name]], into)
       - SumOver([k \in outof |-> row.fired[transitions[k].name]], outof)

\* C27: when every transition is monitored, any two consecutive rows of one
\* repetition differ, in every pool, by the net flow tallied in the later
\* row.
C27_FlowBalance ==
    ((pc = "for" \/ pc = "while") /\ save_transitions = Names(transitions)) =>
        \A k \in 2..Len(results) :
            results[k].run = results[k - 1].run =>
                \A pool \in DOMAIN results[k].state :
                    results[k].state[pool] - results[k - 1].state[pool]
                        = NetFlow(results[k], pool)

\* A run() that monitors both transitions has two consecutive rows of one
\* repetition with two firings tallied in the later one.
C27_Witness ==
    /\ pc = "while" /\ ~resting_state_simulation
    /\ save_transitions = {"T1", "T2"}
    /\ Names(transitions) = {"T1", "T2"}
    /\ \E k \in 2..Len(results) :
          /\ results[k].run = results[k - 1].run
          /\ results[k].fired["T1"] + results[k].fired["T2"] = 2
          /\ results[k].state # results[k - 1].state

\* The number of events named name in evs.
CountNamed(evs, name) == Len(SelectSeq(evs, LAMBDA e : e.name = name))

\* The tallies of name in the rows of repetition r, summed.
TalliedIn(rows, r, name) ==
    LET ks == { k \in 1..Len(rows) : rows[k].run = r }
    IN SumOver([k \in ks |-> rows[k].fired[name]], ks)

\* C28: when the while loop of a trajectory is left, the last executed event
\* came after the emission of the last row: the live pool counts are the
\* counts of the last emitted row with exactly that one transition applied,
\* and its firing is in no row's tally; the pool counts when run() returns
\* are the last row of the table with one transition applied.
C28_TrailingEvent ==
    /\ [][ (pc = "while" /\ pc' = "for") =>
             LET last == results'[Len(results')]
                 trailing == events'[Len(events')]
             IN /\ last.run = i
                /\ trailing.time >= last.time
                /\ get_current_state' =
                      Transfer(last.state, TransitionNamed(trailing.name))
                /\ \A name \in save_transitions :
                      TalliedIn(results', i, name) =
                          CountNamed(events', name)
                              - (IF trailing.name = name THEN 1 ELSE 0) ]_vars
    /\ [] ((pc = "idle" /\ call = "run" /\ outcome = "ok"
              /\ request.method = "gillespie") =>
             \E k \in 1..Len(transitions) :
                 get_current_state =
                     Transfer(results_table[Len(results_table)].state,
                              transitions[k]))

\* run() has returned with a table whose last row tallies a firing of the
\* monitored T1, and the pool counts are not those of that row.
C28_Witness ==
    /\ pc = "idle" /\ call = "run" /\ outcome = "ok"
    /\ Len(results_table) >= 2
    /\ DOMAIN results_table[Len(results_table)].fired = {"T1"}
    /\ results_table[Len(results_table)].fired["T1"] = 1
    /\ get_current_state # results_table[Len(results_table)].state

\* C29: a set_initial_state that fails because a declared pool is missing
\* from the mapping leaves every pool count as it was before the call.
C29_AllOrNothing ==
    [][ (Calls("set_initial_state") /\ outcome' = "KeyError") =>
            vesicles_in' = vesicles_in ]_vars

\* set_initial_state failed on the second declared pool, Fusion, and the
\* first, Docked, holds the count the mapping gave for it, which is not a
\* distribution of the vesicles with what Fusion holds.
C29_Witness ==
    /\ call = "set_initial_state" /\ outcome = "KeyError"
    /\ transition_states = << Docked, Fusion >>
    /\ DOMAIN request.dictionary_state = {Docked}
    /\ vesicles_in[Docked] = request.dictionary_state[Docked]
    /\ vesicles_in[Docked] + vesicles_in[Fusion] # Vesicles

\* C30: every pool count of the state a converged resting test returns is
\* at least 0, whichever pool the difference was added to.
C30_AcceptedNonNegative ==
    (returned # NoArgs /\ given.helper = "resting_test" /\ returned.success) =>
        \A n \in DOMAIN returned.state : returned.state[n] >= 0

\* The rounded means summed to more than the total and the difference was
\* added to a pool whose rounded mean is 0.
C30_Witness ==
    /\ returned # NoArgs /\ given.helper = "resting_test" /\ returned.success
    /\ SumDict(Rounded(given.dataframe, given.window_width, given.tolerance))
          > given.vesicles
    /\ \E n \in DOMAIN returned.state : returned.state[n] < 0
    /\ SumDict(returned.state) = given.vesicles

====
